---- MODULE Spec2Model ----
(***************************************************************************)
(* Model of cli_backup.js: a WAV file is downmixed and resampled to        *)
(* 48000 Hz, paced to a realtime transport in 10 ms frames, the inbound    *)
(* audio is captured with its arrival time, and once a "response.done"     *)
(* control message has been seen the captured buffers are mixed onto the   *)
(* input timeline with saturation and written to the output path.          *)
(*                                                                         *)
(* Sequences are 1-based here; the 0-based index j of the code is element  *)
(* j + 1.  Time is the value of process.hrtime.bigint(), in nanoseconds.   *)
(***************************************************************************)
EXTENDS Integers, Sequences, FiniteSets, TLC

(* ------------------------------ bounds --------------------------------- *)
\* inputs of the session are 0, 1, F+1 and k*F samples long, k <= this
MaxWholeFrames == 1
\* the clock is followed up to this many milliseconds, and beyond them only
\* up to a pending timer
MaxNowMs == 15
\* the signalling exchange takes at most this many milliseconds
MaxSetupMs == 10
\* while the main function is suspended without a timer the clock is
\* followed in steps of this many milliseconds
TickMs == 10
\* the clock is followed to this many nanoseconds before and after the expiry
\* of a pending timer, and this many nanoseconds on while the main function
\* runs
JitterNs == 400000
\* the file system carries out an operation within this many milliseconds of
\* the instant at which it was issued
MaxFsMs == 0
\* the resampler is run on inputs of at most this many samples
MaxResampleLen == 11
\* the mixer is run on lists of at most this many buffers
MaxMixBuffers == 2
\* at most this many inbound buffers are delivered in one session
MaxBuffers == 2
\* the downmix is run on frames of at most this many channels
MaxChannels == 3
\* the downmix is run on at most this many frames
MaxDownmixFrames == 2
\* the dataset directory holds at most this many entries
MaxEntries == 3
\* the dataset runner is started with MAX_JOBS of at most this
MaxJobsArg == 2

(* ------------------------- program constants --------------------------- *)
targetRate == 48000
sampleRate == targetRate
frameSize == sampleRate \div 100
frameBytes == frameSize * 2
PaceMs == 10
PollMs == 50
NsPerMs == 1000000
Int16Min == -32768
Int16Max == 32767
DoneTag == "response.done"
\* line 171: the event loop compares its own millisecond clock with the
\* expiry, so a timer is served up to a millisecond before process.hrtime
\* has reached the expiry, or at any instant after it
TimerSlackNs == NsPerMs

Min(a, b) == IF a < b THEN a ELSE b
Max(a, b) == IF a > b THEN a ELSE b

(* ------------------------ bytes and Int16 views ------------------------ *)
\* Buffer.writeInt16LE: the two's complement of v, low byte first
WriteInt16LE(v) ==
  LET u == v % 65536 IN <<u % 256, u \div 256>>

\* element k (0-based) of an Int16Array view laid over the bytes
Int16At(bytes, k) ==
  LET u == bytes[2 * k + 1] + 256 * bytes[2 * k + 2]
  IN IF u >= 32768 THEN u - 65536 ELSE u

\* lines 96-99: the PCM buffer built from the resampled samples
BuildPcm(resampled) ==
  [b \in 1..(2 * Len(resampled)) |->
     WriteInt16LE(resampled[(b + 1) \div 2])[2 - (b % 2)]]

\* Buffer.slice(from, to): the end is cut at the length of the buffer
BufferSlice(buf, from, to) == SubSeq(buf, from + 1, Min(to, Len(buf)))

\* Buffer.alloc(n): n zero bytes
BufferAlloc(n) == [b \in 1..n |-> 0]

\* variant of FrameAt: the short final chunk is sent as it is, without the pad
FrameAtNoPad(inputPcm, off) ==
  LET slice == BufferSlice(inputPcm, off, off + frameBytes)
  IN [k \in 1..(Len(slice) \div 2) |-> Int16At(slice, k - 1)]

\* lines 163-169: the frame handed to the transport for byte offset off
FrameAt(inputPcm, off) ==
  LET slice == BufferSlice(inputPcm, off, off + frameBytes)
      chunk == IF Len(slice) < frameBytes
               THEN slice \o BufferAlloc(frameBytes - Len(slice))
               ELSE slice
  IN [k \in 1..frameSize |-> Int16At(chunk, k - 1)]

\* line 182: new Int16Array(inputPcm.buffer)
InputSamples(inputPcm) ==
  [k \in 1..(Len(inputPcm) \div 2) |-> Int16At(inputPcm, k - 1)]

(* ------------------------------- mixer --------------------------------- *)
\* Math.round of the rational num/den (den > 0): nearest, halves upwards
MathRound(num, den) == (2 * num + den) \div (2 * den)

\* sampleRate / 1e9 in lowest terms, samples per nanosecond
RateNum == sampleRate \div 8000
RateDen == (1000 * NsPerMs) \div 8000

\* variant of OffsetOf: the offset is truncated downwards instead of rounded
OffsetOfFloor(time, startTime) ==
  LET delta == time - startTime
      q == delta \div RateDen
      r == delta % RateDen
  IN RateNum * q + ((RateNum * r) \div RateDen)

\* lines 186-187: Math.round((Number(time - startTime) / 1e6) * sampleRate / 1000).
\* The floating-point result equals the exact rounding of
\* delta * sampleRate / 1e9 for every delta of a session (|delta| < 2^31 ns);
\* the quotient is split so that no intermediate exceeds 32 bits.
OffsetOf(time, startTime) ==
  LET delta == time - startTime
      q == delta \div RateDen
      r == delta % RateDen
  IN RateNum * q + MathRound(RateNum * r, RateDen)

\* lines 185-188
Offsets(gptBuffers, startTime) ==
  [idx \in 1..Len(gptBuffers) |-> OffsetOf(gptBuffers[idx].time, startTime)]

\* lines 184, 189-192
RECURSIVE MaxIndexFrom(_, _, _, _)
MaxIndexFrom(gptBuffers, offsets, idx, maxIndex) ==
  IF idx > Len(gptBuffers) THEN maxIndex
  ELSE MaxIndexFrom(gptBuffers, offsets, idx + 1,
                    Max(maxIndex, offsets[idx] + Len(gptBuffers[idx].samples)))

MaxIndex(inputSamples, gptBuffers, offsets) ==
  MaxIndexFrom(gptBuffers, offsets, 1, Len(inputSamples))

\* variant of InitOutput: the array is allocated but the input is not copied
InitOutputNoCopy(inputSamples, maxIndex) == [j \in 1..maxIndex |-> 0]

\* lines 193-194: new Int16Array(maxIndex) with the input copied to its start
InitOutput(inputSamples, maxIndex) ==
  [j \in 1..maxIndex |-> IF j <= Len(inputSamples) THEN inputSamples[j] ELSE 0]

\* variant of Clamp: the sum is stored unclamped and wraps as an Int16Array
\* element does
ClampWrap(sum) ==
  LET u == sum % 65536 IN IF u >= 32768 THEN u - 65536 ELSE u

\* line 200
Clamp(sum) == Max(Int16Min, Min(Int16Max, sum))

\* variant of ApplyBuffer: the buffer lands one sample late
ApplyBufferLate(outputSamples, samples, pos) ==
  [j \in 1..Len(outputSamples) |->
     LET i == (j - 1) - (pos + 1)
     IN IF 0 <= i /\ i < Len(samples)
        THEN Clamp(outputSamples[j] + samples[i + 1])
        ELSE outputSamples[j]]

\* lines 196-201: one buffer added at pos.  A write at an index outside the
\* typed array (j < 0) is dropped and the read there yields undefined || 0.
ApplyBuffer(outputSamples, samples, pos) ==
  [j \in 1..Len(outputSamples) |->
     LET i == (j - 1) - pos
     IN IF 0 <= i /\ i < Len(samples)
        THEN Clamp(outputSamples[j] + samples[i + 1])
        ELSE outputSamples[j]]

\* variant of MixFrom: only the last buffer of the list is added
MixFromLast(outputSamples, gptBuffers, offsets, idx) ==
  IF gptBuffers = <<>> THEN outputSamples
  ELSE ApplyBuffer(outputSamples, gptBuffers[Len(gptBuffers)].samples,
                   offsets[Len(gptBuffers)])

\* lines 195-202
RECURSIVE MixFrom(_, _, _, _)
MixFrom(outputSamples, gptBuffers, offsets, idx) ==
  IF idx > Len(gptBuffers) THEN outputSamples
  ELSE MixFrom(ApplyBuffer(outputSamples, gptBuffers[idx].samples, offsets[idx]),
               gptBuffers, offsets, idx + 1)

\* lines 182-202
Mix(inputPcm, gptBuffers, startTime) ==
  LET inputSamples == InputSamples(inputPcm)
      offsets == Offsets(gptBuffers, startTime)
      maxIndex == MaxIndex(inputSamples, gptBuffers, offsets)
  IN MixFrom(InitOutput(inputSamples, maxIndex), gptBuffers, offsets, 1)

(* ----------------- IEEE-754 double arithmetic of the resampler --------- *)
\* Natural numbers of any size are sequences of bits, lowest bit first and
\* without leading zero bits (the empty sequence is 0).  A double is
\* [neg, m, e] with value (-1)^neg * m * 2^e and m of at most 53 bits; the
\* values of the resampler are far from overflow and underflow.
\* the highest element of a non-empty set of integers
MaxOf(S) == CHOOSE i \in S : \A j \in S : j <= i

BNorm(a) ==
  LET ones == {i \in 1..Len(a) : a[i] = 1}
  IN IF ones = {} THEN <<>> ELSE SubSeq(a, 1, MaxOf(ones))

RECURSIVE BFromInt(_)
BFromInt(n) == IF n = 0 THEN <<>> ELSE <<n % 2>> \o BFromInt(n \div 2)

RECURSIVE BToInt(_)
BToInt(a) == IF a = <<>> THEN 0 ELSE a[1] + 2 * BToInt(Tail(a))

BBit(a, i) == IF i <= Len(a) THEN a[i] ELSE 0

\* bits lo..hi of a + b with the carry into bit lo, and the carry out
RECURSIVE BAddRange(_, _, _, _, _)
BAddRange(a, b, lo, hi, carry) ==
  IF lo > hi THEN [s |-> <<>>, c |-> carry]
  ELSE IF lo = hi
  THEN LET t == BBit(a, lo) + BBit(b, lo) + carry
       IN [s |-> <<t % 2>>, c |-> t \div 2]
  ELSE LET mid == (lo + hi) \div 2
           low == BAddRange(a, b, lo, mid, carry)
           high == BAddRange(a, b, mid + 1, hi, low.c)
       IN [s |-> low.s \o high.s, c |-> high.c]

BAdd(a, b) ==
  LET r == BAddRange(a, b, 1, Max(Len(a), Len(b)), 0)
  IN IF r.c = 1 THEN Append(r.s, 1) ELSE r.s

\* bits lo..hi of a - b with the borrow into bit lo, and the borrow out
RECURSIVE BSubRange(_, _, _, _, _)
BSubRange(a, b, lo, hi, borrow) ==
  IF lo > hi THEN [s |-> <<>>, c |-> borrow]
  ELSE IF lo = hi
  THEN LET t == BBit(a, lo) - BBit(b, lo) - borrow
       IN [s |-> <<t % 2>>, c |-> IF t < 0 THEN 1 ELSE 0]
  ELSE LET mid == (lo + hi) \div 2
           low == BSubRange(a, b, lo, mid, borrow)
           high == BSubRange(a, b, mid + 1, hi, low.c)
       IN [s |-> low.s \o high.s, c |-> high.c]

\* a - b for a >= b
BSub(a, b) == BNorm(BSubRange(a, b, 1, Len(a), 0).s)

\* a >= b
BGeq(a, b) ==
  IF Len(a) # Len(b) THEN Len(a) > Len(b)
  ELSE LET diff == {i \in 1..Len(a) : a[i] # b[i]}
       IN diff = {} \/ a[MaxOf(diff)] = 1

BShl(a, k) == IF a = <<>> THEN <<>> ELSE [i \in 1..k |-> 0] \o a

BShr(a, k) == SubSeq(a, k + 1, Len(a))

\* bits lo..hi of a * n with the carry into bit lo, and the carry out
RECURSIVE BMulRange(_, _, _, _, _)
BMulRange(a, n, lo, hi, carry) ==
  IF lo > hi THEN [s |-> <<>>, c |-> carry]
  ELSE IF lo = hi
  THEN LET t == a[lo] * n + carry
       IN [s |-> <<t % 2>>, c |-> t \div 2]
  ELSE LET mid == (lo + hi) \div 2
           low == BMulRange(a, n, lo, mid, carry)
           high == BMulRange(a, n, mid + 1, hi, low.c)
       IN [s |-> low.s \o high.s, c |-> high.c]

\* a * n for a machine integer n >= 0
BMulSmall(a, n) ==
  LET r == BMulRange(a, n, 1, Len(a), 0) IN BNorm(r.s \o BFromInt(r.c))

BReverse(a) == [i \in 1..Len(a) |-> a[Len(a) + 1 - i]]

\* bits hi..lo of the quotient of a by a machine integer d > 0, highest bit
\* first, given the remainder r left by the bits above hi, and the remainder
\* left below lo
RECURSIVE BDivSmallRange(_, _, _, _, _)
BDivSmallRange(a, d, lo, hi, r) ==
  IF lo > hi THEN [q |-> <<>>, r |-> r]
  ELSE IF lo = hi
  THEN LET r2 == 2 * r + a[lo]
       IN IF r2 >= d THEN [q |-> <<1>>, r |-> r2 - d] ELSE [q |-> <<0>>, r |-> r2]
  ELSE LET mid == (lo + hi) \div 2
           high == BDivSmallRange(a, d, mid + 1, hi, r)
           low == BDivSmallRange(a, d, lo, mid, high.r)
       IN [q |-> high.q \o low.q, r |-> low.r]

BDivSmall(a, d) ==
  LET qr == BDivSmallRange(a, d, 1, Len(a), 0)
  IN [q |-> BNorm(BReverse(qr.q)), r |-> qr.r]

\* the same for a divisor d of any size
RECURSIVE BDivRange(_, _, _, _, _)
BDivRange(a, d, lo, hi, r) ==
  IF lo > hi THEN [q |-> <<>>, r |-> r]
  ELSE IF lo = hi
  THEN LET r2 == BNorm(<<a[lo]>> \o r)
       IN IF BGeq(r2, d) THEN [q |-> <<1>>, r |-> BSub(r2, d)]
          ELSE [q |-> <<0>>, r |-> r2]
  ELSE LET mid == (lo + hi) \div 2
           high == BDivRange(a, d, mid + 1, hi, r)
           low == BDivRange(a, d, lo, mid, high.r)
       IN [q |-> high.q \o low.q, r |-> low.r]

BDiv(a, d) ==
  LET qr == BDivRange(a, d, 1, Len(a), <<>>)
  IN [q |-> BNorm(BReverse(qr.q)), r |-> qr.r]

FZero == [neg |-> FALSE, m |-> <<>>, e |-> 0]

\* m * 2^e (plus a nonzero remainder below the last bit when sticky) rounded
\* to 53 significant bits, to nearest and to even on a tie
Round53(neg, m, e, sticky) ==
  IF Len(m) <= 53 THEN [neg |-> neg, m |-> m, e |-> e]
  ELSE LET cut == Len(m) - 53
           kept == BShr(m, cut)
           rest == sticky \/ \E i \in 1..(cut - 1) : m[i] = 1
           up == m[cut] = 1 /\ (rest \/ kept[1] = 1)
       IN [neg |-> neg,
           m |-> IF up THEN BAdd(kept, <<1>>) ELSE kept,
           e |-> e + cut]

\* a / b for machine integers a >= 0, b > 0
FDivInts(a, b) ==
  IF a = 0 THEN FZero
  ELSE LET k == 55 + Len(BFromInt(b))
           qr == BDivSmall(BShl(BFromInt(a), k), b)
       IN Round53(FALSE, qr.q, 0 - k, qr.r # 0)

\* n * x for a machine integer n
FMulInt(n, x) ==
  IF n = 0 \/ x.m = <<>> THEN FZero
  ELSE Round53(x.neg # (n < 0), BMulSmall(x.m, IF n < 0 THEN 0 - n ELSE n), x.e, FALSE)

\* Math.floor(x) for x >= 0
FFloor(x) ==
  IF x.e >= 0 THEN BToInt(BShl(x.m, x.e)) ELSE BToInt(BShr(x.m, 0 - x.e))

\* i / x for a machine integer i >= 0 and x > 0
FIntDiv(i, x) ==
  IF i = 0 THEN FZero
  ELSE LET k == 55 + Len(x.m)
           qr == BDiv(BShl(BFromInt(i), k), x.m)
       IN Round53(FALSE, qr.q, 0 - k - x.e, qr.r # <<>>)

\* x - Math.floor(x) for x >= 0, which is exact
FFrac(x) ==
  IF x.e >= 0 THEN FZero
  ELSE [neg |-> FALSE, m |-> BNorm(SubSeq(x.m, 1, Min(0 - x.e, Len(x.m)))), e |-> x.e]

\* 1 - f for 0 <= f < 1
FOneMinus(f) ==
  IF f.m = <<>> THEN [neg |-> FALSE, m |-> <<1>>, e |-> 0]
  ELSE Round53(FALSE, BSub(BShl(<<1>>, 0 - f.e), f.m), f.e, FALSE)

\* x + y
FAdd(x, y) ==
  IF x.m = <<>> THEN y
  ELSE IF y.m = <<>> THEN x
  ELSE LET e == Min(x.e, y.e)
           mx == BShl(x.m, x.e - e)
           my == BShl(y.m, y.e - e)
       IN IF x.neg = y.neg THEN Round53(x.neg, BAdd(mx, my), e, FALSE)
          ELSE IF BGeq(mx, my)
               THEN (IF mx = my THEN FZero ELSE Round53(x.neg, BSub(mx, my), e, FALSE))
               ELSE Round53(y.neg, BSub(my, mx), e, FALSE)

\* Math.round(x): the nearest integer, a half rounded towards +infinity
FRound(x) ==
  IF x.m = <<>> THEN 0
  ELSE IF x.e >= 0
       THEN (IF x.neg THEN 0 - BToInt(BShl(x.m, x.e)) ELSE BToInt(BShl(x.m, x.e)))
       ELSE LET d == 0 - x.e
                half == BShl(<<1>>, d - 1)
            IN IF ~x.neg THEN BToInt(BShr(BAdd(x.m, half), d))
               ELSE IF BGeq(half, x.m) THEN 0
               ELSE 0 - BToInt(BShr(BAdd(BSub(x.m, half), BSub(BShl(<<1>>, d), <<1>>)), d))

\* the value stored in an Int16Array element
ToInt16(v) == LET u == v % 65536 IN IF u >= 32768 THEN u - 65536 ELSE u

(* ------------------------------- downmix ------------------------------- *)
\* line 61, for the bit depths 8, 16, 24 and 32
bytesPerSample(bitDepth) == bitDepth \div 8

RECURSIVE Gcd(_, _)
Gcd(a, b) == IF b = 0 THEN a ELSE Gcd(b, a % b)

\* line 62: the quotient of two numbers, a whole number of frames or not; it
\* is kept as the fraction num / den in lowest terms (den > 0)
TotalFrames(buffer, channels, bitDepth) ==
  LET d == bytesPerSample(bitDepth) * channels
      g == Gcd(Len(buffer), d)
  IN [num |-> Len(buffer) \div g, den |-> d \div g]

\* line 63: new Int16Array(totalFrames) has the length truncated to an integer
SamplesLength(totalFrames) == totalFrames.num \div totalFrames.den

\* line 65: the values of i with i < totalFrames are 0 .. LoopFrames - 1
LoopFrames(totalFrames) ==
  (totalFrames.num + totalFrames.den - 1) \div totalFrames.den

\* the bytes one sample read takes: readFloatLE 4, readInt16LE 2
ReadBytes(bitDepth) == IF bitDepth = 32 THEN 4 ELSE 2

\* lines 70-71: the read at offset is inside the buffer; otherwise it throws
\* RangeError
CanRead(buffer, bitDepth, offset) == offset + ReadBytes(bitDepth) <= Len(buffer)

\* line 71: buffer.readInt16LE(offset)
ReadInt16LE(buffer, offset) ==
  LET u == buffer[offset + 1] + 256 * buffer[offset + 2]
  IN IF u >= 32768 THEN u - 65536 ELSE u

\* line 70: the fields of the IEEE-754 single read by buffer.readFloatLE(offset)
FloatFields(buffer, offset) ==
  [neg |-> buffer[offset + 4] >= 128,
   exp |-> (buffer[offset + 4] % 128) * 2 + (buffer[offset + 3] \div 128),
   frac |-> (buffer[offset + 3] % 128) * 65536 + buffer[offset + 2] * 256
            + buffer[offset + 1]]

\* line 70: buffer.readFloatLE(offset) is NaN
IsNaN(buffer, offset) ==
  LET f == FloatFields(buffer, offset) IN f.exp = 255 /\ f.frac # 0

\* line 70: Math.round(Math.max(-1, Math.min(1, x)) * 32767) for the single x
\* at offset, which is not NaN.  From the exponent of 1.0 on (infinities
\* included) x is clamped to +-1; below, x * 32767 is exact as a double.
FloatSample(buffer, offset) ==
  LET f == FloatFields(buffer, offset)
  IN IF f.exp >= 127 THEN (IF f.neg THEN 0 - 32767 ELSE 32767)
     ELSE LET x == IF f.exp = 0
                   THEN [neg |-> f.neg, m |-> BFromInt(f.frac), e |-> 0 - 149]
                   ELSE [neg |-> f.neg, m |-> BFromInt(8388608 + f.frac),
                         e |-> f.exp - 150]
          IN FRound(FMulInt(32767, x))

\* lines 69-71: the sample read at offset
SampleAt(buffer, bitDepth, offset) ==
  IF bitDepth = 32 THEN FloatSample(buffer, offset)
  ELSE ReadInt16LE(buffer, offset)

\* line 68
OffsetAt(channels, bitDepth, i, c) == (i * channels + c) * bytesPerSample(bitDepth)

\* lines 67-73: some read of frame i (0-based) throws
FrameThrows(buffer, channels, bitDepth, i) ==
  \E c \in 0..(channels - 1) :
    ~CanRead(buffer, bitDepth, OffsetAt(channels, bitDepth, i, c))

\* lines 67-73: some sample of frame i is NaN, and so is acc
FrameIsNaN(buffer, channels, bitDepth, i) ==
  /\ bitDepth = 32
  /\ \E c \in 0..(channels - 1) : IsNaN(buffer, OffsetAt(channels, bitDepth, i, c))

\* lines 66-73: acc after channels c..channels-1 of frame i (0-based) have
\* been added to it
RECURSIVE AccFrom(_, _, _, _, _, _)
AccFrom(buffer, channels, bitDepth, i, c, acc) ==
  IF c >= channels THEN acc
  ELSE AccFrom(buffer, channels, bitDepth, i, c + 1,
               acc + SampleAt(buffer, bitDepth, OffsetAt(channels, bitDepth, i, c)))

\* acc / channels as a double
FQuot(acc, channels) ==
  IF acc < 0 THEN [FDivInts(0 - acc, channels) EXCEPT !.neg = TRUE]
  ELSE FDivInts(acc, channels)

\* variant of DownmixFrame: a half is rounded away from zero
DownmixFrameAway(buffer, channels, bitDepth, i) ==
  LET acc == AccFrom(buffer, channels, bitDepth, i, 0, 0)
  IN IF FrameIsNaN(buffer, channels, bitDepth, i) THEN 0
     ELSE IF acc < 0 THEN ToInt16(0 - FRound(FQuot(0 - acc, channels)))
     ELSE ToInt16(FRound(FQuot(acc, channels)))

\* lines 66-74: the mono sample of frame i (0-based); NaN is stored as 0
DownmixFrame(buffer, channels, bitDepth, i) ==
  IF FrameIsNaN(buffer, channels, bitDepth, i) THEN 0
  ELSE ToInt16(FRound(FQuot(AccFrom(buffer, channels, bitDepth, i, 0, 0), channels)))

\* lines 62-75: the array samples when the loop ends, and whether it ended
\* by a RangeError thrown from a read.  The frames before the one whose
\* read throws have been stored, the others are still 0; a store beyond the
\* array is dropped.
Downmix(buffer, channels, bitDepth) ==
  LET totalFrames == TotalFrames(buffer, channels, bitDepth)
      throwing == {i \in 0..(LoopFrames(totalFrames) - 1) :
                     FrameThrows(buffer, channels, bitDepth, i)}
      stop == IF throwing = {} THEN LoopFrames(totalFrames)
              ELSE CHOOSE i \in throwing : \A j \in throwing : i <= j
  IN [samples |-> [i \in 1..SamplesLength(totalFrames) |->
                     IF i - 1 < stop
                     THEN DownmixFrame(buffer, channels, bitDepth, i - 1)
                     ELSE 0],
      thrown |-> throwing # {}]

(* ------------------------------ resampler ------------------------------ *)
\* line 81
Ratio(origSampleRate) == FDivInts(targetRate, origSampleRate)

\* line 82
NewLen(len, origSampleRate) == FFloor(FMulInt(len, Ratio(origSampleRate)))

\* lines 85-89: output sample i (0-based); a read beyond the array is
\* undefined, the sum is NaN and the stored element 0
Interpolate(samples, ratio, i) ==
  LET idx == FIntDiv(i, ratio)
      i0 == FFloor(idx)
      i1 == Min(i0 + 1, Len(samples) - 1)
      frac == FFrac(idx)
  IN IF i0 >= Len(samples) THEN 0
     ELSE ToInt16(FRound(FAdd(FMulInt(samples[i0 + 1], FOneMinus(frac)),
                              FMulInt(samples[i1 + 1], frac))))

\* variant of Resample: on equal rates a fresh array is allocated and never
\* filled
ResampleNoCopy(samples, origSampleRate) ==
  IF origSampleRate # targetRate
  THEN [i \in 1..NewLen(Len(samples), origSampleRate) |->
          Interpolate(samples, Ratio(origSampleRate), i - 1)]
  ELSE [i \in 1..Len(samples) |-> 0]

\* lines 79-93
Resample(samples, origSampleRate) ==
  IF origSampleRate # targetRate
  THEN [i \in 1..NewLen(Len(samples), origSampleRate) |->
          Interpolate(samples, Ratio(origSampleRate), i - 1)]
  ELSE samples

(* --------------------------- completion watcher ------------------------ *)
\* variant of DcOnMessage: every control message completes the response
DcOnMessageAnyType(done, m) == TRUE

\* lines 139-142: the value of done after the handler has run on message m
DcOnMessage(done, m) == IF m.type = DoneTag THEN TRUE ELSE done

(* ------------------------------- inputs -------------------------------- *)
PatternSample(i) ==
  CASE i % 4 = 0 -> Int16Max
    [] i % 4 = 1 -> Int16Min
    [] i % 4 = 2 -> i
    [] OTHER -> 0 - i

PatternInput(n) == [i \in 1..n |-> PatternSample(i)]

InputLens ==
  {0, 1, frameSize + 1} \cup {k * frameSize : k \in 1..MaxWholeFrames}

SessionInputs == {PatternInput(n) : n \in InputLens}

\* the samples of the k-th buffer the remote side delivers
InboundAt(k) == IF k % 2 = 1 THEN <<Int16Max, Int16Min, 5>> ELSE <<1000, 1000>>

MsgTypes == {DoneTag, "response.created"}

(* ------------------------------- state --------------------------------- *)
VARIABLES
  pc,            \* position of the main async function
  now,           \* process.hrtime.bigint(), ns
  buffer,        \* line 64, the interleaved PCM bytes of the WAV file
  channels,      \* line 60
  bitDepth,      \* line 60
  samples,       \* line 59, the downmixed input
  origSampleRate, \* line 60
  resampled,     \* line 79
  inputPcm,      \* line 96
  gptBuffers,    \* line 128
  done,          \* line 129
  received,      \* types of the control messages received so far
  startTime,     \* line 161 (-1 before it is taken)
  off,           \* line 162
  wakeAt,        \* expiry of the pending setTimeout
  sent,          \* frames accepted by source.onData
  stops,         \* calls of track.stop()
  readyState,    \* readyState of the track of line 126: "live", or "ended"
                 \* once stop() has been called on it
  outOpens,      \* calls of fs.createWriteStream(outputPath)
  outFile,       \* state of the file at outputPath
  pendingFs,     \* file operations issued on outputPath and not yet carried out
  outputSamples, \* line 193
  writes,        \* calls of writer2.write
  dataset,       \* part_000 lines 51, 130: the entries of "$DATASET_DIR"/*
  script,        \* which of the two job loops of part_000 runs
  MAX_JOBS,      \* part_000 line 7
  entries,       \* part_000 line 51: the entries of the glob not yet visited
  rpc,           \* position of the dataset runner
  pids,          \* part_000 line 50
  job_count,     \* part_000 line 129
  waited,        \* part_000 line 75: pids the final loop has waited for
  running,       \* process_folder jobs that have not exited
  unclaimed,     \* exited jobs the shell has not yet waited for
  launched,      \* number of jobs started so far
  printed        \* number of "Processing complete" lines printed

vars == <<pc, now, buffer, channels, bitDepth, samples, origSampleRate, resampled, inputPcm, gptBuffers, done, received, startTime, off,
          wakeAt, sent, stops, readyState, outOpens, outFile, pendingFs, outputSamples, writes,
          dataset, script, MAX_JOBS, entries, rpc, pids, job_count, waited,
          running, unclaimed, launched, printed>>

\* the state of the dataset runner
jobVars == <<dataset, script, MAX_JOBS, entries, rpc, pids, job_count, waited,
             running, unclaimed, launched, printed>>

\* the state of the session
sessionVars == <<pc, now, buffer, channels, bitDepth, samples, origSampleRate,
                 resampled, inputPcm, gptBuffers, done, received, startTime, off,
                 wakeAt, sent, stops, readyState, outOpens, outFile, pendingFs, outputSamples,
                 writes>>

\* no dataset runner is running
RunnerOff ==
  /\ dataset = <<>>
  /\ script = "none"
  /\ MAX_JOBS = 4
  /\ entries = <<>>
  /\ rpc = "off"
  /\ pids = <<>>
  /\ job_count = 0
  /\ waited = 0
  /\ running = {}
  /\ unclaimed = {}
  /\ launched = 0
  /\ printed = 0

\* the decoded WAV file
wavVars == <<buffer, channels, bitDepth>>

\* positions at which the main function is suspended and callbacks can run
Suspended == {"sdp", "sleep", "poll", "end"}

\* positions at which the callbacks of the event loop run: the main function
\* is suspended, or it has rejected.  With the rejection unhandled the
\* process dies (Node 15 and later) or lives on with a warning (Node 14); at
\* "failed" a callback is a step of the process that lives on.
CallbacksRun == Suspended \cup {"failed"}

Init ==
  /\ RunnerOff
  /\ pc = "sdp"
  /\ now = 0
  /\ channels = 1
  /\ bitDepth = 16
  /\ buffer \in {BuildPcm(s) : s \in SessionInputs}
  /\ samples = Downmix(buffer, channels, bitDepth).samples
  /\ origSampleRate = targetRate
  /\ resampled = Resample(samples, origSampleRate)
  /\ inputPcm = BuildPcm(resampled)
  /\ gptBuffers = <<>>
  /\ done = FALSE
  /\ received = {}
  /\ startTime = -1
  /\ off = 0
  /\ wakeAt = 0
  /\ sent = <<>>
  /\ stops = 0
  /\ readyState = "live"
  /\ outOpens = 0
  /\ outFile = "prior"
  /\ pendingFs = <<>>
  /\ outputSamples = <<>>
  /\ writes = 0

\* the pending timer of line 171 or 179 can be served
TimerDue == now >= wakeAt - TimerSlackNs

\* the instants the clock is followed to: JitterNs before and JitterNs after
\* the expiry of the pending timer while the main function sleeps, one tick on while no timer is
\* pending and callbacks run, and a fraction of a millisecond on while the
\* main function runs
NextInstants ==
  IF pc \in {"sleep", "poll"}
  THEN {wakeAt - JitterNs, wakeAt + JitterNs}
  ELSE IF pc \in CallbacksRun THEN {now + TickMs * NsPerMs}
  ELSE {now + JitterNs}

\* process.hrtime.bigint() advances, while the main function is suspended
\* and while it runs.  The signalling takes at most MaxSetupMs and the clock
\* is followed up to MaxNowMs, and beyond that up to a pending timer.  The
\* running of the main function is followed for JitterNs after line 161 has
\* read the clock; the time it runs after a timer is part of the distance
\* between the expiry of that timer and the instant it is served at.  A
\* file operation is pending for at most MaxFsMs.
Tick ==
  /\ \E t \in NextInstants :
       /\ t > now
       /\ pc = "sdp" => t <= MaxSetupMs * NsPerMs
       /\ pc \notin {"sleep", "poll"} => t <= MaxNowMs * NsPerMs
       /\ pc \notin {"sleep", "poll"} \cup CallbacksRun => t <= startTime + JitterNs
       /\ \A i \in 1..Len(pendingFs) : t <= pendingFs[i].at + MaxFsMs * NsPerMs
       /\ now' = t
  /\ UNCHANGED <<jobVars, wavVars, pc, samples, origSampleRate, resampled, inputPcm, gptBuffers, done, received, startTime, off,
                 wakeAt, sent, stops, readyState, outOpens, outFile, pendingFs, outputSamples, writes>>

\* variant of Capture: the delivered array is stored as it is, without the
\* copy, and the transport fills the same array on the next delivery
CaptureNoCopy ==
  /\ pc \in Suspended
  /\ Len(gptBuffers) < MaxBuffers
  /\ LET delivered == InboundAt(Len(gptBuffers) + 1)
     IN gptBuffers' =
          Append([i \in 1..Len(gptBuffers) |->
                    [gptBuffers[i] EXCEPT !.samples = delivered]],
                 [samples |-> delivered, time |-> now])
  /\ UNCHANGED <<jobVars, wavVars, pc, now, samples, origSampleRate, resampled, inputPcm, done, received, startTime, off, wakeAt,
                 sent, stops, readyState, outOpens, outFile, pendingFs, outputSamples, writes>>

\* lines 133-135: sink.ondata
Capture ==
  /\ pc \in CallbacksRun
  /\ Len(gptBuffers) < MaxBuffers
  /\ gptBuffers' = Append(gptBuffers, [samples |-> InboundAt(Len(gptBuffers) + 1),
                                       time |-> now])
  /\ UNCHANGED <<jobVars, wavVars, pc, now, samples, origSampleRate, resampled, inputPcm, done, received, startTime, off, wakeAt,
                 sent, stops, readyState, outOpens, outFile, pendingFs, outputSamples, writes>>

\* lines 139-142: dc.onmessage
OnMessage ==
  /\ pc \in CallbacksRun
  /\ \E t \in MsgTypes :
       /\ done' = DcOnMessage(done, [type |-> t])
       /\ received' = received \cup {t}
  /\ UNCHANGED <<jobVars, wavVars, pc, now, samples, origSampleRate, resampled, inputPcm, gptBuffers, startTime, off, wakeAt,
                 sent, stops, readyState, outOpens, outFile, pendingFs, outputSamples, writes>>

\* lines 155-161: the signalling has completed; the first writer is piped
\* to a stream on the output path, whose open is issued but not yet carried
\* out, and the stream clock is read
Start ==
  /\ pc = "sdp"
  /\ outOpens' = outOpens + 1
  /\ pendingFs' = Append(pendingFs, [op |-> "open", at |-> now])
  /\ startTime' = now
  /\ off' = 0
  /\ pc' = "loop"
  /\ UNCHANGED <<jobVars, wavVars, now, samples, origSampleRate, resampled, inputPcm, gptBuffers, done, received, wakeAt, sent,
                 stops, readyState, outFile, outputSamples, writes>>

\* lines 162-171: one frame is built and accepted by the transport
PaceSend ==
  /\ pc = "loop"
  /\ off < Len(inputPcm)
  /\ sent' = Append(sent, [samples |-> FrameAt(inputPcm, off)])
  /\ wakeAt' = now + PaceMs * NsPerMs
  /\ pc' = "sleep"
  /\ UNCHANGED <<jobVars, wavVars, now, samples, origSampleRate, resampled, inputPcm, gptBuffers, done, received, startTime, off,
                 stops, readyState, outOpens, outFile, pendingFs, outputSamples, writes>>

\* line 170: source.onData throws and the async function rejects; nothing
\* handles the rejection.  The open issued at line 157 and not carried out
\* yet is still carried out: it was issued before the throw and runs before
\* the process ends.
PaceSendFail ==
  /\ pc = "loop"
  /\ off < Len(inputPcm)
  /\ pc' = "failed"
  /\ UNCHANGED <<jobVars, wavVars, now, samples, origSampleRate, resampled, inputPcm, gptBuffers, done, received, startTime, off,
                 wakeAt, sent, stops, readyState, outOpens, outFile, pendingFs, outputSamples, writes>>

\* variant of PaceWake: the stream clock is read again before every frame
PaceWakeRestart ==
  /\ pc = "sleep"
  /\ TimerDue
  /\ off' = off + frameBytes
  /\ startTime' = now
  /\ pc' = "loop"
  /\ UNCHANGED <<jobVars, wavVars, now, samples, origSampleRate, resampled, inputPcm, gptBuffers, done, received,
                 wakeAt, sent, stops, readyState, outOpens, outFile, pendingFs, outputSamples, writes>>

\* line 171: the 10 ms timer is served and the function resumes; line 162
\* increments
PaceWake ==
  /\ pc = "sleep"
  /\ TimerDue
  /\ off' = off + frameBytes
  /\ pc' = "loop"
  /\ UNCHANGED <<jobVars, wavVars, now, samples, origSampleRate, resampled, inputPcm, gptBuffers, done, received, startTime,
                 wakeAt, sent, stops, readyState, outOpens, outFile, pendingFs, outputSamples, writes>>

\* variant of PaceExit: the loop is also left as soon as done is set
PaceExitOnDone ==
  /\ pc = "loop"
  /\ ~(off < Len(inputPcm)) \/ done
  /\ pc' = "stop"
  /\ UNCHANGED <<jobVars, wavVars, now, samples, origSampleRate, resampled, inputPcm, gptBuffers, done, received, startTime, off,
                 wakeAt, sent, stops, readyState, outOpens, outFile, pendingFs, outputSamples, writes>>

\* line 162: the loop condition fails
PaceExit ==
  /\ pc = "loop"
  /\ ~(off < Len(inputPcm))
  /\ pc' = "stop"
  /\ UNCHANGED <<jobVars, wavVars, now, samples, origSampleRate, resampled, inputPcm, gptBuffers, done, received, startTime, off,
                 wakeAt, sent, stops, readyState, outOpens, outFile, pendingFs, outputSamples, writes>>

\* line 175: the first track.stop(); the track ends
Stop ==
  /\ pc = "stop"
  /\ stops' = stops + 1
  /\ readyState' = "ended"
  /\ pc' = "stop2"
  /\ UNCHANGED <<jobVars, wavVars, now, samples, origSampleRate, resampled, inputPcm, gptBuffers, done, received, startTime, off,
                 wakeAt, sent, outOpens, outFile, pendingFs, outputSamples, writes>>

\* variant of StopAgain: stop() toggles the track, so that the second call
\* makes it live again
StopAgainToggle ==
  /\ pc = "stop2"
  /\ stops' = stops + 1
  /\ readyState' = IF readyState = "ended" THEN "live" ELSE "ended"
  /\ pc' = "wait"
  /\ UNCHANGED <<jobVars, wavVars, now, samples, origSampleRate, resampled, inputPcm, gptBuffers, done, received, startTime, off,
                 wakeAt, sent, outOpens, outFile, pendingFs, outputSamples, writes>>

\* line 176: the second track.stop(), the statement that follows the first
\* one, on the track that has ended; its result is not used, it assigns
\* nothing and the function goes on to line 179
StopAgain ==
  /\ pc = "stop2"
  /\ stops' = stops + 1
  /\ readyState' = "ended"
  /\ pc' = "wait"
  /\ UNCHANGED <<jobVars, wavVars, now, samples, origSampleRate, resampled, inputPcm, gptBuffers, done, received, startTime, off,
                 wakeAt, sent, outOpens, outFile, pendingFs, outputSamples, writes>>

\* variant of WaitCheck: the loop is left after the first look at the flag
WaitCheckOnce ==
  /\ pc = "wait"
  /\ pc' = "mix"
  /\ UNCHANGED <<jobVars, wavVars, now, samples, origSampleRate, resampled, inputPcm, gptBuffers, done, received, startTime,
                 off, wakeAt, sent, stops, readyState, outOpens, outFile, pendingFs, outputSamples, writes>>

\* line 179: the loop condition; the model follows the polling up to the
\* bound of the clock
WaitCheck ==
  /\ pc = "wait"
  /\ done \/ now < MaxNowMs * NsPerMs
  /\ IF done
     THEN pc' = "mix" /\ UNCHANGED wakeAt
     ELSE pc' = "poll" /\ wakeAt' = now + PollMs * NsPerMs
  /\ UNCHANGED <<jobVars, wavVars, now, samples, origSampleRate, resampled, inputPcm, gptBuffers, done, received, startTime, off,
                 sent, stops, readyState, outOpens, outFile, pendingFs, outputSamples, writes>>

\* line 179: the 50 ms timer is served
PollWake ==
  /\ pc = "poll"
  /\ TimerDue
  /\ pc' = "wait"
  /\ UNCHANGED <<jobVars, wavVars, now, samples, origSampleRate, resampled, inputPcm, gptBuffers, done, received, startTime, off,
                 wakeAt, sent, stops, readyState, outOpens, outFile, pendingFs, outputSamples, writes>>

\* lines 182-202
MixStep ==
  /\ pc = "mix"
  /\ outputSamples' = Mix(inputPcm, gptBuffers, startTime)
  /\ pc' = "write"
  /\ UNCHANGED <<jobVars, wavVars, now, samples, origSampleRate, resampled, inputPcm, gptBuffers, done, received, startTime, off,
                 wakeAt, sent, stops, readyState, outOpens, outFile, pendingFs, writes>>

\* lines 205-211: the second writer is piped to a new stream on the output
\* path and the mix is handed to it; the open and the write are issued and
\* carried out later
WriteStep ==
  /\ pc = "write"
  /\ outOpens' = outOpens + 1
  /\ writes' = writes + 1
  /\ pendingFs' = pendingFs \o <<[op |-> "open", at |-> now],
                                 [op |-> "write", at |-> now]>>
  /\ pc' = "end"
  /\ UNCHANGED <<jobVars, wavVars, now, samples, origSampleRate, resampled, inputPcm, gptBuffers, done, received, startTime, off,
                 wakeAt, sent, stops, readyState, outFile, outputSamples>>

\* lines 157, 206: the open of a write stream is carried out by the file
\* system, at any moment after it was issued: the file is created or emptied
FsOpen ==
  /\ pendingFs # <<>>
  /\ Head(pendingFs).op = "open"
  /\ outFile' = "truncated"
  /\ pendingFs' = Tail(pendingFs)
  /\ UNCHANGED <<jobVars, wavVars, pc, now, samples, origSampleRate, resampled, inputPcm, gptBuffers, done, received, startTime,
                 off, wakeAt, sent, stops, readyState, outOpens, outputSamples, writes>>

\* lines 208-209: the bytes handed to writer2 reach the file; the stream
\* writes them from a callback of the event loop, once its open has completed
FsWrite ==
  /\ pendingFs # <<>>
  /\ Head(pendingFs).op = "write"
  /\ pc \in Suspended
  /\ outFile' = "mixed"
  /\ pendingFs' = Tail(pendingFs)
  /\ UNCHANGED <<jobVars, wavVars, pc, now, samples, origSampleRate, resampled, inputPcm, gptBuffers, done, received, startTime,
                 off, wakeAt, sent, stops, readyState, outOpens, outputSamples, writes>>

Next ==
  \/ Tick
  \/ Capture
  \/ OnMessage
  \/ Start
  \/ PaceSend
  \/ PaceSendFail
  \/ PaceWake
  \/ PaceExit
  \/ Stop
  \/ StopAgain
  \/ WaitCheck
  \/ PollWake
  \/ MixStep
  \/ WriteStep
  \/ FsOpen
  \/ FsWrite

Spec == Init /\ [][Next]_vars

\* the main function can run: it is at a position that is not a suspension,
\* or the awaited signalling (which completes) or timer (which can be served)
\* lets it resume
Runnable ==
  \/ pc \in {"sdp", "loop", "stop", "stop2", "mix", "write"}
  \/ pc \in {"sleep", "poll"} /\ TimerDue
  \/ pc = "wait" /\ (done \/ now < MaxNowMs * NsPerMs)

\* a step of the main function other than the rejected send: the steps
\* Start, PaceSend, PaceWake, PaceExit, Stop, StopAgain, WaitCheck, PollWake,
\* MixStep and WriteStep, recognised by the position they reach
MainRuns ==
  /\ Runnable
  /\ pc' \in {"loop", "sleep", "stop", "stop2", "wait", "poll", "mix", "write",
             "end"} \ {pc}

\* the session under fair scheduling: the clock advances and the timers
\* are served, the main function, which is at one position at a time, runs
\* whenever it can, and the file system carries out what was issued
Fairness ==
  /\ WF_vars(Tick)
  /\ WF_pc(MainRuns)
  /\ WF_vars(FsOpen \/ FsWrite)

SpecLive == Init /\ [][Next]_vars /\ Fairness

(* ---------------------- the mixer on chosen inputs --------------------- *)
\* the session at line 182, with the input, the start instant and the
\* captured buffers drawn from the sets below
MixStart == 20 * NsPerMs

MixDeltas == {0, 31250, 62500}

MixSamples == {<<Int16Max>>, <<0 - 10000>>, <<Int16Min, Int16Max>>}

MixInputs == {<<>>, <<0>>, <<Int16Max, Int16Min, 5>>}

MixBuffers ==
  {[samples |-> s, time |-> MixStart + d] : s \in MixSamples, d \in MixDeltas}

\* lists of captured buffers; arrival times never decrease along a list
MixBufferLists ==
  UNION {{l \in [1..n -> MixBuffers] :
            \A i \in 1..(n - 1) : l[i].time <= l[i + 1].time} :
         n \in 0..MaxMixBuffers}

Repeat(v, n) == [i \in 1..n |-> v]

MixCases ==
  {[input |-> in, buffers |-> l] : in \in MixInputs, l \in MixBufferLists}
  \cup
  {[input |-> Repeat(0, sampleRate),
    buffers |-> <<[samples |-> Repeat(1000, 10), time |-> MixStart + 500 * NsPerMs]>>],
   [input |-> <<7>>,
    buffers |-> <<[samples |-> <<1000>>, time |-> MixStart + 100 * NsPerMs]>>],
   [input |-> <<7, 8>>,
    buffers |-> <<[samples |-> <<Int16Min, Int16Max, 9>>, time |-> MixStart - 31250]>>]}

\* the frames the pacer has sent for the input when line 182 is reached
SentFrames(pcm, start) ==
  [k \in 1..((Len(pcm) + frameBytes - 1) \div frameBytes) |->
     [samples |-> FrameAt(pcm, (k - 1) * frameBytes),
      time |-> start + (k - 1) * PaceMs * NsPerMs]]

InitMix ==
  \E c \in MixCases :
    /\ RunnerOff
    /\ pc = "mix"
    /\ channels = 1
    /\ bitDepth = 16
    /\ buffer = BuildPcm(c.input)
    /\ samples = c.input
    /\ origSampleRate = targetRate
    /\ resampled = Resample(c.input, targetRate)
    /\ inputPcm = BuildPcm(c.input)
    /\ gptBuffers = c.buffers
    /\ startTime = MixStart
    /\ sent = SentFrames(BuildPcm(c.input), MixStart)
    /\ off = Len(sent) * frameBytes
    /\ now = MixStart + Max(Len(sent) * PaceMs, 500) * NsPerMs
    /\ wakeAt = MixStart + Len(sent) * PaceMs * NsPerMs
    /\ done = TRUE
    /\ received = {DoneTag}
    /\ stops = 2
    /\ readyState = "ended"
    /\ outOpens = 1
    /\ outFile = "truncated"
    /\ pendingFs = <<>>
    /\ outputSamples = <<>>
    /\ writes = 0

NextMix ==
  \/ MixStep
  \/ WriteStep
  \/ FsOpen
  \/ FsWrite

SpecMix == InitMix /\ [][NextMix]_vars

(* -------------------- the resampler on chosen inputs ------------------- *)
ResampleRates == {24000, 35200, 44100, targetRate, 96000}

InitResample ==
  /\ RunnerOff
  /\ pc = "resample"
  /\ samples \in {PatternInput(n) : n \in 0..MaxResampleLen}
  /\ channels = 1
  /\ bitDepth = 16
  /\ buffer = BuildPcm(samples)
  /\ origSampleRate \in ResampleRates
  /\ resampled = <<>>
  /\ inputPcm = <<>>
  /\ now = 0
  /\ gptBuffers = <<>>
  /\ done = FALSE
  /\ received = {}
  /\ startTime = -1
  /\ off = 0
  /\ wakeAt = 0
  /\ sent = <<>>
  /\ stops = 0
  /\ readyState = "live"
  /\ outOpens = 0
  /\ outFile = "prior"
  /\ pendingFs = <<>>
  /\ outputSamples = <<>>
  /\ writes = 0

\* lines 77-99: the input is resampled and laid out as PCM bytes; the
\* session token is requested next
ResampleStep ==
  /\ pc = "resample"
  /\ resampled' = Resample(samples, origSampleRate)
  /\ inputPcm' = BuildPcm(resampled')
  /\ pc' = "token"
  /\ UNCHANGED <<jobVars, wavVars, now, samples, origSampleRate, gptBuffers, done, received,
                 startTime, off, wakeAt, sent, stops, readyState, outOpens, outFile, pendingFs,
                 outputSamples, writes>>

NextResample == ResampleStep

SpecResample == InitResample /\ [][NextResample]_vars

(* --------------------- the downmix on chosen inputs -------------------- *)
DownmixValues == {100, 200, 0 - 100, 99, Int16Max, Int16Min}

\* the interleaved samples of n frames: the odd frames are f, the even ones
\* hold the complement of every value of f
Interleaved(f, n) ==
  [k \in 1..(n * Len(f)) |->
     LET v == f[((k - 1) % Len(f)) + 1]
     IN IF ((k - 1) \div Len(f)) % 2 = 0 THEN v ELSE 0 - v - 1]

\* IEEE-754 singles as their four bytes, low byte first: 0.5, -0.5, -1.5,
\* 0.3, NaN, +infinity, the smallest denormal and -0.25
FloatQuads ==
  {<<0, 0, 0, 63>>, <<0, 0, 0, 191>>, <<0, 0, 192, 191>>, <<154, 153, 153, 62>>,
   <<0, 0, 192, 127>>, <<0, 0, 128, 127>>, <<1, 0, 0, 0>>, <<0, 0, 128, 190>>}

\* n frames, each the singles of f one after the other
FloatBuffer(f, n) ==
  [b \in 1..(4 * n * Len(f)) |->
     f[(((b - 1) \div 4) % Len(f)) + 1][((b - 1) % 4) + 1]]

\* the data chunk b with its last k bytes missing
CutShort(b, k) == SubSeq(b, 1, Max(0, Len(b) - k))

\* 16-bit files of 1 to MaxChannels channels, whole or cut short by a byte;
\* the same bytes of 1 or 2 channels declared as 8-bit and as 24-bit; and
\* 32-bit float files of 1 or 2 channels, whole or cut short by a byte
DownmixCases ==
  UNION {{[channels |-> c, bitDepth |-> 16,
           buffer |-> CutShort(BuildPcm(Interleaved(f, n)), k)] :
            f \in [1..c -> DownmixValues], n \in 0..MaxDownmixFrames, k \in {0, 1}} :
         c \in 1..MaxChannels}
  \cup
  UNION {{[channels |-> c, bitDepth |-> d, buffer |-> BuildPcm(Interleaved(f, n))] :
            f \in [1..c -> DownmixValues], n \in 0..MaxDownmixFrames, d \in {8, 24}} :
         c \in 1..2}
  \cup
  UNION {{[channels |-> c, bitDepth |-> 32, buffer |-> CutShort(FloatBuffer(f, n), k)] :
            f \in [1..c -> FloatQuads], n \in 0..MaxDownmixFrames, k \in {0, 1}} :
         c \in 1..2}

InitDownmix ==
  \E c \in DownmixCases :
    /\ RunnerOff
    /\ pc = "decode"
    /\ channels = c.channels
    /\ bitDepth = c.bitDepth
    /\ buffer = c.buffer
    /\ samples = <<>>
    /\ origSampleRate = targetRate
    /\ resampled = <<>>
    /\ inputPcm = <<>>
    /\ now = 0
    /\ gptBuffers = <<>>
    /\ done = FALSE
    /\ received = {}
    /\ startTime = -1
    /\ off = 0
    /\ wakeAt = 0
    /\ sent = <<>>
    /\ stops = 0
    /\ readyState = "live"
    /\ outOpens = 0
    /\ outFile = "prior"
    /\ pendingFs = <<>>
    /\ outputSamples = <<>>
    /\ writes = 0

\* lines 58-75: the decoded bytes are downmixed and the resampler runs next;
\* when a read throws, the async function rejects and the process dies
DownmixStep ==
  /\ pc = "decode"
  /\ LET r == Downmix(buffer, channels, bitDepth)
     IN /\ samples' = r.samples
        /\ pc' = IF r.thrown THEN "failed" ELSE "downmixed"
  /\ UNCHANGED <<jobVars, wavVars, now, origSampleRate, resampled, inputPcm, gptBuffers,
                 done, received, startTime, off, wakeAt, sent, stops, readyState, outOpens,
                 outFile, pendingFs, outputSamples, writes>>

NextDownmix == DownmixStep

SpecDownmix == InitDownmix /\ [][NextDownmix]_vars

(* --------------------------- dataset runner ---------------------------- *)
\* part_000 holds two job loops, which bash runs one after the other over
\* the same dataset: lines 1-79 keep the pids of the jobs in an array, lines
\* 80-149 count the jobs and use wait -n.
\* An entry of the dataset directory is TRUE when it is a directory with a
\* numeric name (lines 52-54, 131-133).
Range(s) == {s[i] : i \in 1..Len(s)}

\* the pids of s that are not in gone, in the order of s
RECURSIVE Without(_, _)
Without(s, gone) ==
  IF s = <<>> THEN <<>>
  ELSE IF Head(s) \in gone THEN Without(Tail(s), gone)
       ELSE <<Head(s)>> \o Without(Tail(s), gone)

EntryLists == UNION {[1..n -> BOOLEAN] : n \in 0..MaxEntries}

InitRunner ==
  /\ script = "pids"
  /\ MAX_JOBS \in 1..MaxJobsArg
  /\ dataset \in EntryLists
  /\ entries = dataset
  /\ rpc = "for"
  /\ pids = <<>>
  /\ job_count = 0
  /\ waited = 0
  /\ running = {}
  /\ unclaimed = {}
  /\ launched = 0
  /\ printed = 0
  /\ pc = "off"
  /\ now = 0
  /\ channels = 1
  /\ bitDepth = 16
  /\ buffer = <<>>
  /\ samples = <<>>
  /\ origSampleRate = targetRate
  /\ resampled = <<>>
  /\ inputPcm = <<>>
  /\ gptBuffers = <<>>
  /\ done = FALSE
  /\ received = {}
  /\ startTime = -1
  /\ off = 0
  /\ wakeAt = 0
  /\ sent = <<>>
  /\ stops = 0
  /\ readyState = "live"
  /\ outOpens = 0
  /\ outFile = "prior"
  /\ pendingFs = <<>>
  /\ outputSamples = <<>>
  /\ writes = 0

\* lines 52-54, 131-133: the entry is not a numbered folder
ForSkip ==
  /\ rpc = "for"
  /\ entries # <<>>
  /\ ~Head(entries)
  /\ entries' = Tail(entries)
  /\ UNCHANGED <<sessionVars, dataset, script, MAX_JOBS, rpc, pids, job_count, waited,
                 running, unclaimed, launched, printed>>

\* lines 56-57: process_folder "$FOLDER" & ; pids+=("$!")
LaunchPids ==
  /\ rpc = "for"
  /\ script = "pids"
  /\ entries # <<>>
  /\ Head(entries)
  /\ entries' = Tail(entries)
  /\ launched' = launched + 1
  /\ running' = running \cup {launched + 1}
  /\ pids' = Append(pids, launched + 1)
  /\ rpc' = "while"
  /\ UNCHANGED <<sessionVars, dataset, script, MAX_JOBS, job_count, waited, unclaimed,
                 printed>>

\* variant of WhileCheck: the loop waits only when the array is longer than
\* MAX_JOBS
WhileCheckGreater ==
  /\ rpc = "while"
  /\ rpc' = IF Len(pids) > MAX_JOBS THEN "scan" ELSE "for"
  /\ UNCHANGED <<sessionVars, dataset, script, MAX_JOBS, entries, pids, job_count,
                 waited, running, unclaimed, launched, printed>>

\* line 60
WhileCheck ==
  /\ rpc = "while"
  /\ rpc' = IF Len(pids) >= MAX_JOBS THEN "scan" ELSE "for"
  /\ UNCHANGED <<sessionVars, dataset, script, MAX_JOBS, entries, pids, job_count,
                 waited, running, unclaimed, launched, printed>>

\* lines 61-68: the pids for which kill -0 fails are waited for and taken
\* out of the array.  kill -0 fails only for a job that has exited, and it
\* still succeeds for one that has exited but has not been reaped yet.
ScanPids ==
  /\ rpc = "scan"
  /\ \E gone \in SUBSET (Range(pids) \ running) :
       /\ pids' = Without(pids, gone)
       /\ unclaimed' = unclaimed \ gone
  /\ rpc' = "sleep"
  /\ UNCHANGED <<sessionVars, dataset, script, MAX_JOBS, entries, job_count, waited,
                 running, launched, printed>>

\* line 69
SleepWake ==
  /\ rpc = "sleep"
  /\ rpc' = "while"
  /\ UNCHANGED <<sessionVars, dataset, script, MAX_JOBS, entries, pids, job_count,
                 waited, running, unclaimed, launched, printed>>

\* lines 135-136: process_folder "$FOLDER" & ; ((job_count++))
LaunchCount ==
  /\ rpc = "for"
  /\ script = "wait -n"
  /\ entries # <<>>
  /\ Head(entries)
  /\ entries' = Tail(entries)
  /\ launched' = launched + 1
  /\ running' = running \cup {launched + 1}
  /\ job_count' = job_count + 1
  /\ rpc' = "if"
  /\ UNCHANGED <<sessionVars, dataset, script, MAX_JOBS, pids, waited, unclaimed,
                 printed>>

\* line 139
IfCheck ==
  /\ rpc = "if"
  /\ rpc' = IF job_count >= MAX_JOBS THEN "wait -n" ELSE "for"
  /\ UNCHANGED <<sessionVars, dataset, script, MAX_JOBS, entries, pids, job_count,
                 waited, running, unclaimed, launched, printed>>

\* lines 140-141: wait -n returns when a job has exited that the shell has
\* not waited for yet (the shell may count several such jobs as this one
\* return), or at once when the shell has no job left
WaitN ==
  /\ rpc = "wait -n"
  /\ \/ \E claimed \in (SUBSET unclaimed) \ {{}} : unclaimed' = unclaimed \ claimed
     \/ running = {} /\ unclaimed = {} /\ UNCHANGED unclaimed
  /\ job_count' = job_count - 1
  /\ rpc' = "for"
  /\ UNCHANGED <<sessionVars, dataset, script, MAX_JOBS, entries, pids, waited, running,
                 launched, printed>>

\* lines 72, 144: the glob is exhausted
ForEnd ==
  /\ rpc = "for"
  /\ entries = <<>>
  /\ rpc' = "final"
  /\ UNCHANGED <<sessionVars, dataset, script, MAX_JOBS, entries, pids, job_count,
                 waited, running, unclaimed, launched, printed>>

\* lines 75-77: wait "$pid" returns when that job has exited
FinalWaitPid ==
  /\ rpc = "final"
  /\ script = "pids"
  /\ waited < Len(pids)
  /\ pids[waited + 1] \notin running
  /\ waited' = waited + 1
  /\ unclaimed' = unclaimed \ {pids[waited + 1]}
  /\ UNCHANGED <<sessionVars, dataset, script, MAX_JOBS, entries, rpc, pids, job_count,
                 running, launched, printed>>

\* line 77: the loop over the pids is over
FinalWaitDone ==
  /\ rpc = "final"
  /\ script = "pids"
  /\ waited = Len(pids)
  /\ rpc' = "echo"
  /\ UNCHANGED <<sessionVars, dataset, script, MAX_JOBS, entries, pids, job_count,
                 waited, running, unclaimed, launched, printed>>

\* line 147: wait returns when every job has exited
FinalWaitAll ==
  /\ rpc = "final"
  /\ script = "wait -n"
  /\ running = {}
  /\ unclaimed' = {}
  /\ rpc' = "echo"
  /\ UNCHANGED <<sessionVars, dataset, script, MAX_JOBS, entries, pids, job_count,
                 waited, running, launched, printed>>

\* lines 79, 149: after line 79 the file goes on with its second half,
\* line 149 is the last line
Echo ==
  /\ rpc = "echo"
  /\ printed' = printed + 1
  /\ rpc' = IF script = "pids" THEN "second" ELSE "done"
  /\ UNCHANGED <<sessionVars, dataset, script, MAX_JOBS, entries, pids, job_count,
                 waited, running, unclaimed, launched>>

\* lines 85-130: the second half reads the same arguments again, defines
\* process_folder again, sets job_count to 0 and expands the glob again
JobControl ==
  /\ rpc = "second"
  /\ script' = "wait -n"
  /\ job_count' = 0
  /\ entries' = dataset
  /\ rpc' = "for"
  /\ UNCHANGED <<sessionVars, dataset, MAX_JOBS, pids, waited, running, unclaimed,
                 launched, printed>>

\* lines 19-47: a process_folder job returns, at any moment of the runner
JobExit ==
  /\ \E j \in running :
       /\ running' = running \ {j}
       /\ unclaimed' = unclaimed \cup {j}
  /\ UNCHANGED <<sessionVars, dataset, script, MAX_JOBS, entries, rpc, pids, job_count,
                 waited, launched, printed>>

NextRunner ==
  \/ ForSkip
  \/ LaunchPids
  \/ WhileCheck
  \/ ScanPids
  \/ SleepWake
  \/ LaunchCount
  \/ IfCheck
  \/ WaitN
  \/ ForEnd
  \/ FinalWaitPid
  \/ FinalWaitDone
  \/ FinalWaitAll
  \/ Echo
  \/ JobControl
  \/ JobExit

SpecRunner == InitRunner /\ [][NextRunner]_vars

(* ------------------------------ claims -------------------------------- *)
CeilDiv(a, b) == (a + b - 1) \div b

\* the pacing loop has been left normally
PacingOver == pc \in {"stop", "stop2", "wait", "poll", "mix", "write", "end"}

\* what claim C1 says frame k (1-based) of the input must be
ExpectedFrame(input, k) ==
  LET lo == (k - 1) * frameSize
      hi == Min(k * frameSize, Len(input))
  IN SubSeq(input, lo + 1, hi) \o [i \in 1..(frameSize - (hi - lo)) |-> 0]

\* C1: the pacer emits the windows of the input in ascending order, each
\* exactly frameSize samples long with the samples of its window followed by
\* zeros, never more than ceil(L/F) of them and exactly ceil(L/F) once the
\* loop has been left (none for L = 0).
C1_FramePacer ==
  /\ Len(sent) <= CeilDiv(Len(resampled), frameSize)
  /\ PacingOver => Len(sent) = CeilDiv(Len(resampled), frameSize)
  /\ \A k \in 1..Len(sent) :
       /\ Len(sent[k].samples) = frameSize
       /\ sent[k].samples = ExpectedFrame(resampled, k)

C1_Witness ==
  /\ pc = "end"
  /\ Len(resampled) = frameSize + 1
  /\ Len(sent) = 2
  /\ sent[2].samples[1] = resampled[frameSize + 1]
  /\ sent[2].samples[frameSize] = 0

\* C2: the mix is computed and written only after every frame has been sent,
\* end-of-input has been signalled and a response-complete message has set
\* done; as long as no such message has been received nothing is mixed or
\* written, however long the wait loop has polled.
C2_MixAfterDone ==
  /\ pc \in {"mix", "write", "end"} =>
       /\ done
       /\ DoneTag \in received
       /\ Len(sent) = CeilDiv(Len(resampled), frameSize)
       /\ stops >= 1
  /\ DoneTag \notin received =>
       /\ pc \notin {"mix", "write", "end"}
       /\ outputSamples = <<>>
       /\ writes = 0
       /\ outFile # "mixed"

C2_Witness ==
  /\ pc = "end"
  /\ writes = 1
  /\ outFile = "mixed"
  /\ Len(sent) = 1
  /\ wakeAt >= startTime + PollMs * NsPerMs

\* C3: done is FALSE until a control message of type "response.done" has
\* been received and TRUE from then on; a message of another type changes
\* neither done nor the captured buffers nor the pacer; done never goes back
\* to FALSE.
C3_CompletionWatcher ==
  /\ [](done <=> DoneTag \in received)
  /\ [][done => done']_vars
  /\ [][(received' # received /\ DoneTag \notin (received' \ received)) =>
          UNCHANGED <<done, gptBuffers, pc, off, sent, wakeAt, startTime, stops, readyState>>]_vars

C3_Witness ==
  /\ done
  /\ received = MsgTypes
  /\ pc = "sleep"

\* the input sample at 0-based index j0, 0 beyond the input
InputAt(j0) == IF j0 < Len(resampled) THEN resampled[j0 + 1] ELSE 0

\* buffer idx covers 0-based output index j0
Covers(idx, j0) ==
  LET pos == OffsetOf(gptBuffers[idx].time, startTime)
  IN pos <= j0 /\ j0 < pos + Len(gptBuffers[idx].samples)

\* the sample buffer idx contributes at 0-based output index j0
Contribution(idx, j0) ==
  gptBuffers[idx].samples[j0 - OffsetOf(gptBuffers[idx].time, startTime) + 1]

\* the mix has just been computed from the current buffer list
Mixed == pc = "write"

\* C4: with no captured buffer at mixing time the MixBuffer is the input
\* sequence, sample for sample and of the same length.
C4_MixerIdentity ==
  (Mixed /\ gptBuffers = <<>>) =>
     /\ Len(outputSamples) = Len(resampled)
     /\ outputSamples = resampled

C4_Witness ==
  /\ Mixed
  /\ gptBuffers = <<>>
  /\ Len(resampled) = frameSize + 1
  /\ outputSamples[1] = Int16Min
  /\ outputSamples[frameSize] = Int16Max

\* one saturating addition
SatAdd(a, b) ==
  IF a + b > Int16Max THEN Int16Max
  ELSE IF a + b < Int16Min THEN Int16Min ELSE a + b

\* the contributions at index j0 added to acc one buffer after the other, in
\* list order, each addition saturating
RECURSIVE SatSum(_, _, _)
SatSum(j0, acc, idx) ==
  IF idx > Len(gptBuffers) THEN acc
  ELSE SatSum(j0, IF Covers(idx, j0) THEN SatAdd(acc, Contribution(idx, j0)) ELSE acc,
              idx + 1)

\* the exact, unclamped sum of the input sample and of all contributions
RECURSIVE TotalSum(_, _, _)
TotalSum(j0, acc, idx) ==
  IF idx > Len(gptBuffers) THEN acc
  ELSE TotalSum(j0, IF Covers(idx, j0) THEN acc + Contribution(idx, j0) ELSE acc,
                idx + 1)

\* C5 (as amended): every MixBuffer value lies in [-32768, 32767] and is the
\* input sample with the contributions of the buffers added in list order,
\* each single addition saturating: an addition whose exact result exceeds
\* 32767 leaves exactly 32767 (below -32768: exactly -32768), and a later
\* buffer can move the value away from the bound again.
C5_SequentialSaturation ==
  Mixed =>
    \A j \in 1..Len(outputSamples) :
      /\ Int16Min <= outputSamples[j] /\ outputSamples[j] <= Int16Max
      /\ outputSamples[j] = SatSum(j - 1, InputAt(j - 1), 1)

C5_Witness ==
  /\ Mixed
  /\ Len(gptBuffers) = 2
  /\ resampled = <<0>>
  /\ TotalSum(0, InputAt(0), 1) = 2 * Int16Max
  /\ outputSamples[1] = Int16Max

\* C5 (as claimed): wherever the input sample and the overlapping
\* contributions sum above 32767 the MixBuffer holds exactly 32767, and
\* wherever they sum below -32768 it holds exactly -32768.
C5_SaturatesOnTotal ==
  Mixed =>
    \A j \in 1..Len(outputSamples) :
      /\ Int16Min <= outputSamples[j] /\ outputSamples[j] <= Int16Max
      /\ TotalSum(j - 1, InputAt(j - 1), 1) > Int16Max => outputSamples[j] = Int16Max
      /\ TotalSum(j - 1, InputAt(j - 1), 1) < Int16Min => outputSamples[j] = Int16Min

\* pos is delta * sampleRate / 1e9 rounded to the nearest integer, halves up
NearestOffset(pos, delta) ==
  LET q == delta \div RateDen
      r == delta % RateDen
      e == 2 * (RateNum * r - (pos - RateNum * q) * RateDen)
  IN (0 - RateDen) <= e /\ e < RateDen

\* C6: every captured buffer is placed at the offset given by its own
\* arrival time, round((time - startTime) * sampleRate / 1e9), whatever its
\* position in the list; a buffer that arrived 100 ms after the start
\* begins at index 4800.
C6_Placement ==
  Mixed =>
    \A idx \in 1..Len(gptBuffers) :
      LET pos == Offsets(gptBuffers, startTime)[idx]
          delta == gptBuffers[idx].time - startTime
      IN /\ NearestOffset(pos, delta)
         /\ delta = 100 * NsPerMs => pos = 4800
         /\ \A k \in 1..Len(gptBuffers[idx].samples) :
              (pos + k >= 1 /\ TotalSum(pos + k - 1, 0, 1) = gptBuffers[idx].samples[k]
                 /\ InputAt(pos + k - 1) = 0)
                => outputSamples[pos + k] = gptBuffers[idx].samples[k]

C6_Witness ==
  /\ Mixed
  /\ Len(gptBuffers) = 1
  /\ gptBuffers[1].time = startTime + 100 * NsPerMs
  /\ Len(outputSamples) = 4801
  /\ outputSamples[4801] = 1000
  /\ outputSamples[4800] = 0

\* no buffer covers 0-based output index j0
Uncovered(j0) == \A idx \in 1..Len(gptBuffers) : ~Covers(idx, j0)

\* C7: an index covered by no captured buffer holds the input sample (0
\* beyond the input); one second of silence with ten samples of 1000 arriving
\* 500 ms after the start gives 48000 samples, 1000 at 24000..24009 and 0
\* everywhere else.
C7_OnlyCoveredChange ==
  Mixed =>
    /\ \A j \in 1..Len(outputSamples) :
         Uncovered(j - 1) => outputSamples[j] = InputAt(j - 1)
    /\ ( /\ resampled = Repeat(0, sampleRate)
         /\ Len(gptBuffers) = 1
         /\ gptBuffers[1].samples = Repeat(1000, 10)
         /\ gptBuffers[1].time = startTime + 500 * NsPerMs )
       => /\ Len(outputSamples) = 48000
          /\ \A j \in 1..Len(outputSamples) :
               outputSamples[j] = IF 24000 <= j - 1 /\ j - 1 <= 24009 THEN 1000 ELSE 0

C7_Witness ==
  /\ Mixed
  /\ resampled = Repeat(0, sampleRate)
  /\ Len(gptBuffers) = 1
  /\ gptBuffers[1].time = startTime + 500 * NsPerMs
  /\ Len(outputSamples) = 48000
  /\ outputSamples[24001] = 1000
  /\ outputSamples[24010] = 1000
  /\ outputSamples[24011] = 0

\* the resampler has run
Resampled == pc = "token"

\* C9: whatever the source rate and the input length n, the resampled
\* sequence is exactly floor(n * targetRate / sourceRate) samples long (none
\* for n = 0).
C9_ResampleLength ==
  Resampled =>
    Len(resampled) = (Len(samples) * targetRate) \div origSampleRate

\* C10: at a source rate equal to the target rate the resampled sequence is
\* the downmixed input, of the same length and sample for sample.
C10_ResampleIdentity ==
  (Resampled /\ origSampleRate = targetRate) =>
     /\ Len(resampled) = Len(samples)
     /\ resampled = samples

C10_Witness ==
  /\ Resampled
  /\ origSampleRate = targetRate
  /\ Len(samples) = 5
  /\ resampled[1] = Int16Min
  /\ resampled[4] = Int16Max

\* the downmix has run
Downmixed == pc = "downmixed"

\* channel c (0-based) of frame i (0-based) as read from the bytes
ChannelValue(i, c) ==
  SampleAt(buffer, bitDepth, OffsetAt(channels, bitDepth, i, c))

RECURSIVE ChannelSum(_, _)
ChannelSum(i, c) ==
  IF c >= channels THEN 0 ELSE ChannelValue(i, c) + ChannelSum(i, c + 1)

\* C11: the mono sample of every frame of integer channel samples is the
\* sum of its channel values divided by the channel count and rounded to the
\* nearest integer, a half towards +infinity; (100, 200) gives 150 and
\* (-100, 99) gives 0; the result lies between the smallest and the largest
\* channel value.
C11_Downmix ==
  Downmixed =>
    /\ Len(samples) = Len(buffer) \div (bytesPerSample(bitDepth) * channels)
    /\ \A i \in 1..Len(samples) :
         ~FrameIsNaN(buffer, channels, bitDepth, i - 1) =>
         LET sum == ChannelSum(i - 1, 0)
             m == samples[i]
         IN /\ (2 * m - 1) * channels <= 2 * sum
            /\ 2 * sum < (2 * m + 1) * channels
            /\ \E c \in 0..(channels - 1) : ChannelValue(i - 1, c) <= m
            /\ \E c \in 0..(channels - 1) : m <= ChannelValue(i - 1, c)
            /\ (channels = 2 /\ ChannelValue(i - 1, 0) = 100
                  /\ ChannelValue(i - 1, 1) = 200) => m = 150
            /\ (channels = 2 /\ ChannelValue(i - 1, 0) = 0 - 100
                  /\ ChannelValue(i - 1, 1) = 99) => m = 0

C11_Witness ==
  /\ Downmixed
  /\ channels = 2
  /\ bitDepth = 16
  /\ Len(samples) = 2
  /\ ChannelValue(0, 0) = 0 - 100
  /\ ChannelValue(0, 1) = 99
  /\ samples[1] = 0
  /\ samples[2] = 0

\* C12: no captured buffer is mixed at a negative offset: every captured
\* buffer arrived at or after the start instant, so each of its samples is
\* added at a valid index of the MixBuffer and none is dropped.
C12_NoNegativeOffset ==
  Mixed =>
    \A idx \in 1..Len(gptBuffers) :
      /\ gptBuffers[idx].time >= startTime
      /\ Offsets(gptBuffers, startTime)[idx] >= 0
      /\ \A k \in 1..Len(gptBuffers[idx].samples) :
           /\ Offsets(gptBuffers, startTime)[idx] + k \in 1..Len(outputSamples)
           /\ Covers(idx, Offsets(gptBuffers, startTime)[idx] + k - 1)

\* C13: the buffer list the mixer reads is complete: once the mix has
\* been computed no further buffer is appended to the capture list.
C13_NoCaptureAfterMix ==
  [][(pc \in {"write", "end"}) => UNCHANGED gptBuffers]_vars

\* C14: the MixBuffer is max(inputLength, max over the captured buffers of
\* (offsetSamples + bufferLength)) samples long, and every index
\* offsetSamples + k written while mixing lies in 0 .. length - 1.
C14_LengthAndBounds ==
  Mixed =>
    LET offsets == Offsets(gptBuffers, startTime)
        ends == {offsets[idx] + Len(gptBuffers[idx].samples) : idx \in 1..Len(gptBuffers)}
    IN /\ Len(outputSamples) \in ends \cup {Len(resampled)}
       /\ \A e \in ends \cup {Len(resampled)} : e <= Len(outputSamples)
       /\ \A idx \in 1..Len(gptBuffers) :
            \A k \in 0..(Len(gptBuffers[idx].samples) - 1) :
              0 <= offsets[idx] + k /\ offsets[idx] + k < Len(outputSamples)

\* C15: every delivery of inbound audio appends exactly one entry, a copy
\* of the delivered samples with the current monotonic time, at the end of
\* the list; no step modifies, removes or reorders the entries already
\* there, and the timestamps never decrease along the list.
C15_CaptureAppendOnly ==
  /\ [](\A i \in 1..(Len(gptBuffers) - 1) :
          gptBuffers[i].time <= gptBuffers[i + 1].time)
  /\ [][ /\ Len(gptBuffers') \in {Len(gptBuffers), Len(gptBuffers) + 1}
         /\ SubSeq(gptBuffers', 1, Len(gptBuffers)) = gptBuffers
         /\ Len(gptBuffers') = Len(gptBuffers) + 1 =>
              /\ gptBuffers'[Len(gptBuffers')].samples = InboundAt(Len(gptBuffers'))
              /\ gptBuffers'[Len(gptBuffers')].time = now
              /\ UNCHANGED <<pc, now, done, sent, off, startTime, outputSamples>> ]_vars

C15_Witness ==
  /\ Len(gptBuffers) = 2
  /\ gptBuffers[1].samples = InboundAt(1)
  /\ gptBuffers[2].samples = InboundAt(2)
  /\ gptBuffers[1].time < gptBuffers[2].time
  /\ done
  /\ pc = "end"

\* C16 (as amended): once a response.done message has been received, at
\* any point, then under fair scheduling either the transport rejects a
\* frame and the program dies, or all ceil(L/F) frames are sent, the wait
\* loop is left, the mix is computed and the output is written; it is
\* never written more than once.
C16_EventuallyWrittenOrFailed ==
  /\ [](writes <= 1)
  /\ done ~> ( \/ pc = "failed"
               \/ /\ pc = "end"
                  /\ writes = 1
                  /\ outFile = "mixed"
                  /\ Len(sent) = CeilDiv(Len(resampled), frameSize) )

C16_Witness ==
  /\ pc = "end"
  /\ writes = 1
  /\ outFile = "mixed"
  /\ pendingFs = <<>>
  /\ Len(sent) = 2
  /\ received = {DoneTag}
  /\ wakeAt < startTime + PollMs * NsPerMs
  /\ now < wakeAt

\* C16 (as claimed): once a response.done message has been received the
\* program eventually leaves the wait loop, computes the mix and writes the
\* output exactly once.
C16_EventuallyWritten ==
  /\ [](writes <= 1)
  /\ done ~> (pc = "end" /\ writes = 1 /\ outFile = "mixed")

\* C17: startTime is written exactly once, with the current monotonic time
\* and before the first frame is handed to the transport, and never
\* modified afterwards; every frame is sent at or after it, and the mixer
\* computes the offsets from that same value.
C17_StreamClock ==
  /\ [](sent # <<>> => (startTime >= 0 /\ startTime <= now))
  /\ [][sent' # sent =>
          /\ startTime >= 0
          /\ startTime <= now
          /\ UNCHANGED <<startTime, now>>]_vars
  /\ [](Mixed => outputSamples = Mix(inputPcm, gptBuffers, startTime))
  /\ [][startTime' # startTime =>
          /\ startTime = 0 - 1
          /\ sent = <<>>
          /\ sent' = <<>>
          /\ startTime' = now]_vars

C17_Witness ==
  /\ Mixed
  /\ Len(sent) = 2
  /\ startTime = 10 * NsPerMs
  /\ Len(gptBuffers) = 1
  /\ gptBuffers[1].time = startTime + PaceMs * NsPerMs + 2 * JitterNs
  /\ Len(outputSamples) = OffsetOf(gptBuffers[1].time, startTime) + 3

Perms(n) ==
  {p \in [1..n -> 1..n] : \A i, j \in 1..n : i # j => p[i] # p[j]}

\* the list l in the order p
Permuted(l, p) == [i \in 1..Len(l) |-> l[p[i]]]

\* adding the buffers of l from idx on to acc at 0-based index j0, in the
\* order of l, some exact sum leaves [-32768, 32767]
RECURSIVE ClampTriggered(_, _, _, _)
ClampTriggered(l, j0, acc, idx) ==
  IF idx > Len(l) THEN FALSE
  ELSE LET pos == OffsetOf(l[idx].time, startTime)
       IN IF pos <= j0 /\ j0 < pos + Len(l[idx].samples)
          THEN LET sum == acc + l[idx].samples[j0 - pos + 1]
               IN \/ sum > Int16Max
                  \/ sum < Int16Min
                  \/ ClampTriggered(l, j0, sum, idx + 1)
          ELSE ClampTriggered(l, j0, acc, idx + 1)

\* C19: for the same input, start instant and buffers, the MixBuffer has
\* the same length whatever the order in which the buffers are applied, and
\* two orders give different values only at an index where, in one of the
\* two orders, a partial sum leaves [-32768, 32767].
C19_OrderIndependence ==
  Mixed =>
    \A p \in Perms(Len(gptBuffers)) :
      LET l == Permuted(gptBuffers, p)
          o == Mix(inputPcm, l, startTime)
      IN /\ Len(o) = Len(outputSamples)
         /\ \A j \in 1..Len(o) :
              o[j] # outputSamples[j] =>
                \/ ClampTriggered(gptBuffers, j - 1, InputAt(j - 1), 1)
                \/ ClampTriggered(l, j - 1, InputAt(j - 1), 1)

C19_Witness ==
  /\ Mixed
  /\ resampled = <<Int16Max, Int16Min, 5>>
  /\ Len(gptBuffers) = 2
  /\ gptBuffers[1].samples = <<0 - 10000>>
  /\ gptBuffers[2].samples = <<Int16Min, Int16Max>>
  /\ gptBuffers[1].time = startTime
  /\ gptBuffers[2].time = startTime
  /\ ~ClampTriggered(gptBuffers, 0, InputAt(0), 1)
  /\ ~ClampTriggered(Permuted(gptBuffers, <<2, 1>>), 0, InputAt(0), 1)
  /\ outputSamples = <<0 - 10001, 0 - 1, 5>>

\* C20: at every moment at most MAX_JOBS process_folder jobs are running,
\* a job is launched only when fewer than MAX_JOBS are running, each
\* "Processing complete" line is printed only after every job launched so
\* far has exited, and no job is launched after the final one (line 149).
C20_JobLimit ==
  /\ [](Cardinality(running) <= MAX_JOBS)
  /\ [](rpc \in {"echo", "second", "done"} => running = {})
  /\ [](rpc = "done" => printed = 2)
  /\ [][printed' # printed =>
          /\ printed' = printed + 1
          /\ running = {}
          /\ running' = {}]_vars
  /\ [][launched' # launched =>
          /\ Cardinality(running) < MAX_JOBS
          /\ launched' = launched + 1
          /\ printed' = printed
          /\ printed < 2]_vars

C20_Witness ==
  /\ printed = 2
  /\ rpc = "done"
  /\ launched = 6
  /\ MAX_JOBS = 2
  /\ script = "wait -n"
  /\ Len(pids) = 1
  /\ running = {}

\* C8: after the transport has rejected a frame no later frame is sent, the
\* end-of-input, wait and mix steps are not run, and the output path has
\* been neither created, truncated nor written.
C8_SendFailureLeavesNoOutput ==
  pc = "failed" =>
    /\ stops = 0
    /\ outputSamples = <<>>
    /\ writes = 0
    /\ outFile = "prior"
====
